---- MODULE Spec2Model ----
(***************************************************************************)
(* Model of oled_hello.py: the host-status OLED daemon.                    *)
(*                                                                         *)
(* Text is a sequence of glyph tokens (one-character strings; the tokens   *)
(* Ellipsis and Degree stand for U+2026 and U+00B0).  A number with one    *)
(* decimal place (a result of round(x, 1)) is an integer count of tenths;  *)
(* the sign of a negative zero is not kept.  round() is round-half-even on *)
(* the exact quotient; the inputs the daemon draws have no exact ties, for *)
(* which Python decides by the binary64 value.                             *)
(***************************************************************************)
EXTENDS Integers, Sequences, FiniteSets, TLC

VARIABLES
    \* ---- process configuration (read once at import) ----
    HOST_IP,    \* os.getenv("HOST_IP"); <<>> when unset or empty
    IFACE,      \* os.getenv("IFACE");   <<>> when unset or empty
    UPDATE_SECS,\* float(os.getenv("UPDATE_SECS", "2"))
    font,       \* the loaded font: [adv, ell, tab]
    \* ---- the daemon ----
    pc,         \* position of the single thread of control
    device,     \* the module-level display handle (0 before open_display returns)
    attempts,   \* initialisation attempts open_display has started
    initLogs,   \* "I2C/OLED init failed" lines printed
    usable,     \* handles whose initialisation (contrast included) completed
    faulted,    \* handles that reported a transport fault during a draw
    ip, cpu, temp, ram, disk,   \* the module-level metric variables
    lines,      \* [line1, line2_precise, line2_ints, line3, line4]
    l2,         \* the string handed to fit for the CPU/T line
    frame,      \* the four strings handed to draw.text in this iteration
    err,        \* [at, exc] of the exception being handled, NoErr otherwise
    logged,     \* "Loop error (continuing)" printed for err
    delay,      \* argument of the time.sleep in progress, 0 otherwise
    \* ---- the environment ----
    cleared,    \* the outage is over: sources and display answer from now on
    \* ---- the fit harness (FitSpec) ----
    ftext,      \* fit's argument text
    fmax_w,     \* fit's argument max_w
    ffont,      \* the font (the width-measuring function) fit is called with
    fpc,        \* "idle" | "start" | "once" | "twice"
    fres,       \* fit(text, max_w)
    fres2,      \* fit(fit(text, max_w), max_w)
    \* ---- the sampler harness (SampleSpec) ----
    sfn,        \* the sampler called, "idle" outside the harness
    sarg,       \* the OS data it reads
    spc,        \* "idle" | "call" | "done"
    sret        \* what the call returned: [raised, val]

cfgvars == <<HOST_IP, IFACE, UPDATE_SECS, font>>
dvars == <<pc, device, attempts, initLogs, usable, faulted, ip, cpu, temp, ram,
           disk, lines, l2, frame, err, logged, delay>>
fvars == <<ftext, fmax_w, ffont, fpc, fres, fres2>>
svars == <<sfn, sarg, spc, sret>>
evars == <<cleared>>
vars == <<cfgvars, dvars, evars, fvars, svars>>

\* ------------------------------------------------------------------ bounds
MaxLen == 3
MaxW == 1
MaxAttempts == 2
MaxGlob == 1

\* --------------------------------------------------------------- constants
WIDTH == 128
OpenRetrySecs == 5
RecoverSecs == 2
DefaultUpdateSecs == 2

\* MOUNT = os.getenv("MOUNT", "/"), at its default
MOUNT == <<"/">>

\* ------------------------------------------------------------------ text
Ellipsis == "ELLIPSIS"
Degree == "DEG"

Min(a, b) == IF a <= b THEN a ELSE b
Abs(n) == IF n < 0 THEN -n ELSE n

\* text[:k]
Take(s, k) == SubSeq(s, 1, Min(k, Len(s)))

\* text[:-1]
DropLast(s) == SubSeq(s, 1, Len(s) - 1)

DigitChars == <<"0", "1", "2", "3", "4", "5", "6", "7", "8", "9">>

\* decimal digits of n >= 0
RECURSIVE Digits(_)
Digits(n) ==
    IF n < 10 THEN <<DigitChars[n + 1]>>
    ELSE Digits(n \div 10) \o <<DigitChars[(n % 10) + 1]>>

\* f"{x:.1f}" of the one-decimal number x = t / 10
Fmt1(t) ==
    (IF t < 0 THEN <<"-">> ELSE <<>>)
        \o Digits(Abs(t) \div 10) \o <<".">> \o Digits(Abs(t) % 10)

\* int(round(x)) of x = t / 10: Python 3 rounds a half to the even integer
IntRound(t) ==
    LET q == t \div 10
        r == t % 10
    IN  IF r < 5 THEN q
        ELSE IF r > 5 THEN q + 1
        ELSE IF q % 2 = 0 THEN q ELSE q + 1

\* f"{n}" of the integer n
FmtInt(n) == (IF n < 0 THEN <<"-">> ELSE <<>>) \o Digits(Abs(n))

\* round(n / d, 0) for d > 0 as an integer, a half going to the even one
RoundDiv(n, d) ==
    LET q == n \div d
        r == n % d
    IN  IF 2 * r < d THEN q
        ELSE IF 2 * r > d THEN q + 1
        ELSE IF q % 2 = 0 THEN q ELSE q + 1

\* s.strip(): leading and trailing blanks removed
RECURSIVE LStrip(_)
LStrip(s) == IF s # <<>> /\ s[1] = " " THEN LStrip(Tail(s)) ELSE s

RECURSIVE RStrip(_)
RStrip(s) == IF s # <<>> /\ s[Len(s)] = " " THEN RStrip(DropLast(s)) ELSE s

Strip(s) == RStrip(LStrip(s))

\* ------------------------------------------------------------------- fit
RECURSIVE SumAdv(_, _)
SumAdv(f, s) ==
    IF s = <<>> THEN 0
    ELSE (IF s[1] = Ellipsis THEN f.ell ELSE f.adv) + SumAdv(f, Tail(s))

\* draw.textlength(s, font=font): the pixel width the font gives s.  A font
\* is [adv, ell, tab]: tab gives the width of the strings it lists, every
\* other string is the sum of its glyphs' advances (ell for the ellipsis).
textlength(f, s) ==
    IF s \in DOMAIN f.tab THEN f.tab[s] ELSE SumAdv(f, s)

\* the while loop of fit: drop the last character until alt + ellipsis fits
RECURSIVE fit_loop(_, _, _)
fit_loop(f, alt, max_w) ==
    IF alt # <<>> /\ textlength(f, alt \o <<Ellipsis>>) > max_w
    THEN fit_loop(f, DropLast(alt), max_w)
    ELSE alt

\* fit with the loop measuring alt without the ellipsis it then appends
RECURSIVE fit_loop_noell(_, _, _)
fit_loop_noell(f, alt, max_w) ==
    IF alt # <<>> /\ textlength(f, alt) > max_w
    THEN fit_loop_noell(f, DropLast(alt), max_w)
    ELSE alt

fit_noell(f, text, max_w) ==
    IF textlength(f, text) <= max_w THEN text
    ELSE LET alt == fit_loop_noell(f, text, max_w)
         IN  IF alt # <<>> THEN alt \o <<Ellipsis>> ELSE Take(text, 1)

\* fit without the early return: the loop runs on a text that fits too
fit_no_early(f, text, max_w) ==
    LET alt == fit_loop(f, text, max_w)
    IN  IF alt # <<>> THEN alt \o <<Ellipsis>> ELSE Take(text, 1)

\* fit that trims one character more than the loop found necessary
fit_trim_extra(f, text, max_w) ==
    IF textlength(f, text) <= max_w THEN text
    ELSE LET alt == DropLast(fit_loop(f, text, max_w))
         IN  IF alt # <<>> THEN alt \o <<Ellipsis>> ELSE Take(text, 1)

\* fit that settles for the shortest prefix whose ellipsized form fits
fit_shortest(f, text, max_w) ==
    IF textlength(f, text) <= max_w THEN text
    ELSE LET ks == {k \in 1..Len(text) :
                       textlength(f, Take(text, k) \o <<Ellipsis>>) <= max_w}
         IN  IF ks = {} THEN Take(text, 1)
             ELSE Take(text, CHOOSE k \in ks : \A j \in ks : k <= j)
                      \o <<Ellipsis>>

fit(f, text, max_w) ==
    IF textlength(f, text) <= max_w THEN text
    ELSE LET alt == fit_loop(f, text, max_w)
         IN  IF alt # <<>> THEN alt \o <<Ellipsis>> ELSE Take(text, 1)

\* a loop that measures alt twice in each evaluation of its condition
RECURSIVE fit_loop_calls_twice(_, _, _)
fit_loop_calls_twice(f, alt, max_w) ==
    IF alt = <<>> THEN 0
    ELSE 2 + (IF textlength(f, alt \o <<Ellipsis>>) > max_w
              THEN fit_loop_calls_twice(f, DropLast(alt), max_w)
              ELSE 0)

\* line 99: the draw.textlength calls the while loop makes from alt on; the
\* condition measures only when alt is not empty (the `and` short-circuits)
RECURSIVE fit_loop_calls(_, _, _)
fit_loop_calls(f, alt, max_w) ==
    IF alt = <<>> THEN 0
    ELSE 1 + (IF textlength(f, alt \o <<Ellipsis>>) > max_w
              THEN fit_loop_calls(f, DropLast(alt), max_w)
              ELSE 0)

\* lines 96-100: the draw.textlength calls one call of fit makes
fit_calls(f, text, max_w) ==
    1 + (IF textlength(f, text) <= max_w THEN 0
         ELSE fit_loop_calls(f, text, max_w))

\* -------------------------------------------------------------- samplers
\* What a call does: return a value, or raise an exception to its caller.
Ret(v) == [raised |-> FALSE, val |-> v]
Raise(exc) == [raised |-> TRUE, val |-> exc]

HasSlash(p) == \E i \in 1..Len(p) : p[i] = "/"
CountDots(p) == Cardinality({i \in 1..Len(p) : p[i] = "."})

\* p.split("/")[0]
BeforeSlash(p) ==
    LET k == CHOOSE i \in 1..Len(p) :
                 p[i] = "/" /\ \A j \in 1..(i - 1) : p[j] # "/"
    IN  SubSeq(p, 1, k - 1)

\* the tokens of every line of the output, in reading order
RECURSIVE Flatten(_)
Flatten(ls) == IF ls = <<>> THEN <<>> ELSE ls[1] \o Flatten(Tail(ls))

IsAddrTok(p) == HasSlash(p) /\ CountDots(p) = 3

ZeroIp == <<"0", ".", "0", ".", "0", ".", "0">>

\* the body of get_ip's try block.  env is what the OS answers:
\*   env.ifc   [ok, out]  the "ip -o -4 addr show dev IFACE" command
\*   env.route [ok, toks] the "ip route get 1.1.1.1" command
\*   env.sock  [ok, addr] the UDP connect and getsockname
\* ok = FALSE is a failing command or call (check_output or connect raises).
get_ip_try(hostip, iface, env) ==
    IF hostip # <<>> THEN Ret(Strip(hostip))
    ELSE IF iface # <<>> /\ ~env.ifc.ok THEN Raise("CalledProcessError")
    ELSE
      LET ptoks == IF iface # <<>> THEN Flatten(env.ifc.out) ELSE <<>>
          hits == {i \in 1..Len(ptoks) : IsAddrTok(ptoks[i])}
      IN  IF hits # {}
          THEN Ret(BeforeSlash(ptoks[CHOOSE i \in hits : \A j \in hits : i <= j]))
          ELSE IF ~env.route.ok THEN Raise("CalledProcessError")
          ELSE
            LET toks == env.route.toks
                srcs == {i \in 1..Len(toks) : toks[i] = <<"s", "r", "c">> /\ i + 1 <= Len(toks)}
            IN  IF srcs # {}
                THEN Ret(toks[(CHOOSE i \in srcs : \A j \in srcs : i <= j) + 1])
                ELSE IF ~env.sock.ok THEN Raise("OSError")
                ELSE Ret(env.sock.addr)

get_ip(hostip, iface, env) ==
    LET r == get_ip_try(hostip, iface, env)
    IN  IF r.raised THEN Ret(ZeroIp) ELSE r

RECURSIVE SumSeq(_)
SumSeq(s) == IF s = <<>> THEN 0 ELSE s[1] + SumSeq(Tail(s))

\* a read_stat that takes the idle counter alone as the idle time
read_stat_idle_only(r) ==
    IF r.kind = "unreadable" THEN Raise("OSError")
    ELSE IF r.kind = "nocpu" THEN Ret(<<0, 0>>)
    ELSE IF r.kind = "badint" THEN Raise("ValueError")
    ELSE IF Len(r.parts) < 5 THEN Raise("IndexError")
    ELSE Ret(<<r.parts[4], SumSeq(r.parts)>>)

\* read_stat() on one reading r of /proc/stat:
\*   "unreadable" open() raises; "nocpu" no line starts with "cpu ";
\*   "badint" a field of the cpu line is no integer; "parts" the fields r.parts
read_stat(r) ==
    IF r.kind = "unreadable" THEN Raise("OSError")
    ELSE IF r.kind = "nocpu" THEN Ret(<<0, 0>>)
    ELSE IF r.kind = "badint" THEN Raise("ValueError")
    ELSE IF Len(r.parts) < 5 THEN Raise("IndexError")
    ELSE Ret(<<r.parts[4] + r.parts[5], SumSeq(r.parts)>>)

\* arg = [r1, r2]: the two readings, 250 ms apart
cpu_usage_percent(arg) ==
    LET a == read_stat(arg.r1)
        b == read_stat(arg.r2)
    IN  IF a.raised THEN a
        ELSE IF b.raised THEN b
        ELSE LET d_idle == b.val[1] - a.val[1]
                 d_total == b.val[2] - a.val[2]
             IN  IF d_total > 0
                 THEN Ret(RoundDiv(1000 * (d_total - d_idle), d_total))
                 ELSE Ret(0)

NoTemp == [some |-> FALSE, v |-> 0]
SomeTemp(t) == [some |-> TRUE, v |-> t]

\* a loop that keeps probing and returns the last value that parses
RECURSIVE temp_paths_last(_)
temp_paths_last(reads) ==
    IF reads = <<>> THEN NoTemp
    ELSE IF reads[Len(reads)].kind = "value"
         THEN LET v == reads[Len(reads)].v
              IN  SomeTemp(IF v > 1000 THEN RoundDiv(v, 100) ELSE v * 10)
         ELSE temp_paths_last(DropLast(reads))

\* the for loop of read_temp_c over the readings of the candidate paths:
\* "missing" open() raises, "garbage" float() raises, "value" the number r.v
RECURSIVE temp_paths(_)
temp_paths(reads) ==
    IF reads = <<>> THEN NoTemp
    ELSE IF reads[1].kind = "value"
         THEN LET v == reads[1].v
              IN  SomeTemp(IF v > 1000 THEN RoundDiv(v, 100) ELSE v * 10)
         ELSE temp_paths(Tail(reads))

\* arg = [reads, vc]: vc is the vcgencmd call: "fail" the command fails,
\* "garbage" its output is no number, "temp" it prints vc.t tenths of a degree
read_temp_c(arg) ==
    LET t == temp_paths(arg.reads)
    IN  IF t.some THEN Ret(t)
        ELSE IF arg.vc.kind = "temp" THEN Ret(SomeTemp(arg.vc.t))
        ELSE Ret(NoTemp)

\* lines 66-71: how many candidate paths the for loop opens, in list order
RECURSIVE temp_probes(_)
temp_probes(reads) ==
    IF reads = <<>> THEN 0
    ELSE IF reads[1].kind = "value" THEN 1
    ELSE 1 + temp_probes(Tail(reads))

\* lines 72-73: vcgencmd is run when the for loop ends without returning
vc_invoked(arg) == ~temp_paths(arg.reads).some

\* mem.get(k, 0)
Get(mem, k) == IF k \in DOMAIN mem THEN mem[k] ELSE 0

\* m is /proc/meminfo: "unreadable" open() raises, "badline" a line does not
\* split into key and integer, "records" the parsed dictionary m.mem
mem_usage_percent(m) ==
    IF m.kind = "unreadable" THEN Raise("OSError")
    ELSE IF m.kind = "badline" THEN Raise("ValueError")
    ELSE LET total == Get(m.mem, "MemTotal")
             avail == Get(m.mem, "MemAvailable")
         IN  IF total # 0
             THEN Ret(RoundDiv(1000 * (total - avail), total))
             ELSE Ret(0)

\* du is shutil.disk_usage(path): [ok, used, total], ok = FALSE when it raises
disk_usage_percent(du) ==
    IF ~du.ok THEN Ret(0)
    ELSE IF du.total # 0 THEN Ret(RoundDiv(1000 * du.used, du.total))
    ELSE Ret(0)

\* ---------------------------------------------------------- the lines
\* line building that prints a zero temperature when the reading is absent
format_lines_placeholder(i, c, t, r, d) ==
    LET base2 == <<"C", "P", "U", ":">> \o Fmt1(c) \o <<"%">>
        tv == IF t.some THEN t.v ELSE 0
    IN  [line1 |-> <<"I", "P", ":", " ">> \o i,
         line2_precise |->
             base2 \o <<" ", " ", "T", ":">> \o Fmt1(tv) \o <<Degree, "C">>,
         line2_ints |->
             <<"C", "P", "U", ":">> \o FmtInt(IntRound(c)) \o <<"%">>
                 \o <<" ", " ", "T", ":">> \o FmtInt(IntRound(tv))
                 \o <<Degree, "C">>,
         line3 |-> <<"R", "A", "M", ":">> \o Fmt1(r) \o <<"%">>,
         line4 |-> <<"D", "I", "S", "K", "(">> \o MOUNT \o <<")", ":">>
                      \o Fmt1(d) \o <<"%">>]

\* lines 127-139: the display lines of one metric snapshot
format_lines(i, c, t, r, d) ==
    LET base2 == <<"C", "P", "U", ":">> \o Fmt1(c) \o <<"%">>
    IN  [line1 |-> <<"I", "P", ":", " ">> \o i,
         line2_precise |->
             IF t.some
             THEN base2 \o <<" ", " ", "T", ":">> \o Fmt1(t.v) \o <<Degree, "C">>
             ELSE base2,
         line2_ints |->
             IF t.some
             THEN <<"C", "P", "U", ":">> \o FmtInt(IntRound(c)) \o <<"%">>
                      \o <<" ", " ", "T", ":">> \o FmtInt(IntRound(t.v))
                      \o <<Degree, "C">>
             ELSE base2,
         line3 |-> <<"R", "A", "M", ":">> \o Fmt1(r) \o <<"%">>,
         line4 |-> <<"D", "I", "S", "K", "(">> \o MOUNT \o <<")", ":">>
                      \o Fmt1(d) \o <<"%">>]

\* a canvas block that draws the selected CPU/T line without fitting it
draw_lines_l2_unfitted(f, ls) ==
    LET max_w == WIDTH
        sel == IF textlength(f, ls.line2_precise) > max_w
               THEN ls.line2_ints ELSE ls.line2_precise
    IN  [l2 |-> sel,
         frame |-> <<fit(f, ls.line1, max_w), sel,
                     fit(f, ls.line3, max_w), fit(f, ls.line4, max_w)>>]

\* lines 142-152: what the canvas block hands to fit and to draw.text
draw_lines(f, ls) ==
    LET max_w == WIDTH
        sel == IF textlength(f, ls.line2_precise) > max_w
               THEN ls.line2_ints ELSE ls.line2_precise
    IN  [l2 |-> sel,
         frame |-> <<fit(f, ls.line1, max_w), fit(f, sel, max_w),
                     fit(f, ls.line3, max_w), fit(f, ls.line4, max_w)>>]

\* --------------------------------------------------- what the OS answers
S(a, b, c, d) == <<a, ".", b, ".", c, ".", d>>
IfAddr == S("1", "0", "0", "5")
SrcAddr == S("1", "0", "0", "7")

IfcAnswers ==
    {[ok |-> FALSE, out |-> <<>>],
     [ok |-> TRUE, out |-> <<>>],
     [ok |-> TRUE,
      out |-> << <<<<"2", ":">>, <<"i", "n", "e", "t">>,
                   IfAddr \o <<"/", "2", "4">>, <<"b", "r", "d">>>> >>]}

RouteAnswers ==
    {[ok |-> FALSE, toks |-> <<>>],
     [ok |-> TRUE, toks |-> << <<"d", "e", "v">> >>],
     [ok |-> TRUE, toks |-> << <<"d", "e", "v">>, <<"s", "r", "c">>, SrcAddr >>]}

SockAnswers == {[ok |-> FALSE, addr |-> <<>>], [ok |-> TRUE, addr |-> SrcAddr]}

IpEnvs == [ifc : IfcAnswers, route : RouteAnswers, sock : SockAnswers]

Unreadable == [kind |-> "unreadable", parts |-> <<>>]
Parts(p) == [kind |-> "parts", parts |-> p]

\* user nice system idle iowait
StatReads == {Unreadable, Parts(<<100, 0, 0, 100, 0>>), Parts(<<223, 0, 0, 970, 7>>)}

Missing == [kind |-> "missing", v |-> 0]
Value(v) == [kind |-> "value", v |-> v]

TempArgs ==
    {[reads |-> <<Missing, Missing, Missing>>, vc |-> [kind |-> "fail", t |-> 0]],
     [reads |-> <<Missing, Value(45600), Missing>>, vc |-> [kind |-> "fail", t |-> 0]],
     [reads |-> <<Missing, Missing, Missing>>, vc |-> [kind |-> "temp", t |-> 456]]}

MemInfos ==
    {[kind |-> "unreadable", mem |-> <<>>],
     [kind |-> "records",
      mem |-> [k \in {"MemTotal", "MemAvailable"} |->
                  IF k = "MemTotal" THEN 2000 ELSE 500]]}

DiskUsages ==
    {[ok |-> FALSE, used |-> 0, total |-> 0], [ok |-> TRUE, used |-> 1, total |-> 4]}

Mono(a) == [adv |-> a, ell |-> a, tab |-> <<>>]
Fonts == {Mono(6), Mono(8), Mono(20), Mono(130)}

HostIps == {<<>>, <<" ">> \o S("1", "2", "3", "4") \o <<" ">>}
Ifaces == {<<>>, <<"e", "t", "h", "0">>}
UpdateSecsValues == {DefaultUpdateSecs, -1}

\* ------------------------------------------------------------ the daemon
NoErr == [at |-> "none", exc |-> "none"]
NoLines == [line1 |-> <<>>, line2_precise |-> <<>>, line2_ints |-> <<>>,
            line3 |-> <<>>, line4 |-> <<>>]

FitIdle ==
    /\ ftext = <<>>
    /\ fmax_w = 0
    /\ ffont = Mono(0)
    /\ fpc = "idle"
    /\ fres = <<>>
    /\ fres2 = <<>>

SampleIdle ==
    /\ sfn = "idle"
    /\ sarg = <<>>
    /\ spc = "idle"
    /\ sret = Ret(0)

\* the module-level state when line 116 calls open_display; the metric
\* variables are not bound yet and hold placeholders nothing reads
DaemonStart ==
    /\ pc = "open_try"
    /\ device = 0
    /\ attempts = 0
    /\ initLogs = 0
    /\ usable = {}
    /\ faulted = {}
    /\ ip = <<>>
    /\ cpu = 0
    /\ temp = NoTemp
    /\ ram = 0
    /\ disk = 0
    /\ lines = NoLines
    /\ l2 = <<>>
    /\ frame = <<>>
    /\ err = NoErr
    /\ logged = FALSE
    /\ delay = 0

\* nothing is promised about the sources and the display at start
EnvStart == cleared = FALSE

Init ==
    /\ HOST_IP \in HostIps
    /\ IFACE \in Ifaces
    /\ UPDATE_SECS \in UpdateSecsValues
    /\ font \in Fonts
    /\ DaemonStart
    /\ EnvStart
    /\ FitIdle
    /\ SampleIdle

\* one pass of open_display's try block, the o-th step failing:
\* what the attempt numbered n gives back to the while loop
InitOutcomes == {"i2c_fail", "sh1106_fail", "contrast_fail", "ok"}

\* an open_display that returns the device although contrast() raised
open_attempt_early(o, n) ==
    IF o \in {"ok", "contrast_fail"} THEN [ret |-> TRUE, dev |-> n]
    ELSE [ret |-> FALSE, dev |-> 0]

open_attempt(o, n) ==
    IF o = "ok" THEN [ret |-> TRUE, dev |-> n] ELSE [ret |-> FALSE, dev |-> 0]

\* lines 104-111: one iteration of open_display's loop up to the print
OpenTry ==
    /\ pc = "open_try"
    /\ \E o \in InitOutcomes :
         /\ o # "ok" => attempts < MaxAttempts
         /\ attempts' = attempts + 1
         /\ usable' = IF o = "ok" THEN usable \cup {attempts + 1} ELSE usable
         /\ LET r == open_attempt(o, attempts + 1)
            IN  IF r.ret
                THEN /\ device' = r.dev
                     /\ pc' = "get_ip"
                     /\ UNCHANGED <<initLogs, delay>>
                ELSE /\ initLogs' = initLogs + 1
                     /\ pc' = "open_sleep"
                     /\ delay' = OpenRetrySecs
                     /\ UNCHANGED device
    /\ UNCHANGED <<faulted, ip, cpu, temp, ram, disk, lines, l2, frame, err, logged>>
    /\ UNCHANGED <<cfgvars, evars, fvars, svars>>

\* line 112: time.sleep(5), then the loop tries again
OpenSleep ==
    /\ pc = "open_sleep"
    /\ pc' = "open_try"
    /\ delay' = 0
    /\ UNCHANGED <<device, attempts, initLogs, usable, faulted, ip, cpu, temp, ram,
                   disk, lines, l2, frame, err, logged>>
    /\ UNCHANGED <<cfgvars, evars, fvars, svars>>

\* the exception classes "except Exception" (line 156) catches
Caught_OSErrorOnly(exc) == exc = "OSError"

Caught(exc) == exc \in {"OSError", "ValueError", "IndexError", "CalledProcessError"}

\* an exception raised at step `at` inside the try block of the main loop
Throw(at, exc) ==
    /\ err' = [at |-> at, exc |-> exc]
    /\ pc' = IF Caught(exc) THEN "except" ELSE "exited"

\* a sampling statement whose exception is noted while the iteration goes on
Sample_skip(at, r, next) ==
    /\ pc = at
    /\ pc' = next
    /\ err' = IF r.raised THEN [at |-> at, exc |-> r.val] ELSE err

\* a statement `var = sampler(...)` of lines 121-125
Sample(at, r, next) ==
    /\ pc = at
    /\ IF r.raised THEN Throw(at, r.val) ELSE pc' = next /\ UNCHANGED err

SampleIp ==
    /\ \E env \in IpEnvs :
         LET r == get_ip(HOST_IP, IFACE, env)
         IN  /\ Sample("get_ip", r, "cpu")
             /\ ip' = IF r.raised THEN ip ELSE r.val
    /\ UNCHANGED <<device, attempts, initLogs, usable, faulted, cpu, temp, ram, disk,
                   lines, l2, frame, logged, delay>>
    /\ UNCHANGED <<cfgvars, evars, fvars, svars>>

SampleCpu ==
    /\ \E r1 \in StatReads, r2 \in StatReads :
         LET r == cpu_usage_percent([r1 |-> r1, r2 |-> r2])
         IN  /\ Sample("cpu", r, "temp")
             /\ cpu' = IF r.raised THEN cpu ELSE r.val
    /\ UNCHANGED <<device, attempts, initLogs, usable, faulted, ip, temp, ram, disk,
                   lines, l2, frame, logged, delay>>
    /\ UNCHANGED <<cfgvars, evars, fvars, svars>>

SampleTemp ==
    /\ \E a \in TempArgs :
         LET r == read_temp_c(a)
         IN  /\ Sample("temp", r, "ram")
             /\ temp' = IF r.raised THEN temp ELSE r.val
    /\ UNCHANGED <<device, attempts, initLogs, usable, faulted, ip, cpu, ram, disk,
                   lines, l2, frame, logged, delay>>
    /\ UNCHANGED <<cfgvars, evars, fvars, svars>>

SampleRam ==
    /\ \E m \in MemInfos :
         LET r == mem_usage_percent(m)
         IN  /\ Sample("ram", r, "disk")
             /\ ram' = IF r.raised THEN ram ELSE r.val
    /\ UNCHANGED <<device, attempts, initLogs, usable, faulted, ip, cpu, temp, disk,
                   lines, l2, frame, logged, delay>>
    /\ UNCHANGED <<cfgvars, evars, fvars, svars>>

SampleDisk ==
    /\ \E du \in DiskUsages :
         LET r == disk_usage_percent(du)
         IN  /\ Sample("disk", r, "format")
             /\ disk' = IF r.raised THEN disk ELSE r.val
    /\ UNCHANGED <<device, attempts, initLogs, usable, faulted, ip, cpu, temp, ram,
                   lines, l2, frame, logged, delay>>
    /\ UNCHANGED <<cfgvars, evars, fvars, svars>>

\* lines 127-139
Format ==
    /\ pc = "format"
    /\ lines' = format_lines(ip, cpu, temp, ram, disk)
    /\ pc' = "draw"
    /\ UNCHANGED <<device, attempts, initLogs, usable, faulted, ip, cpu, temp, ram,
                   disk, l2, frame, err, logged, delay>>
    /\ UNCHANGED <<cfgvars, evars, fvars, svars>>

\* lines 141-152: the canvas block; leaving it flushes the image to the
\* device, which succeeds or raises the transport's fault
Draw ==
    /\ pc = "draw"
    /\ LET d == draw_lines(font, lines)
       IN  l2' = d.l2 /\ frame' = d.frame
    /\ \E flushed \in BOOLEAN :
         IF flushed
         THEN pc' = "sleep" /\ UNCHANGED <<faulted, err>>
         ELSE faulted' = faulted \cup {device} /\ Throw("draw", "OSError")
    /\ UNCHANGED <<device, attempts, initLogs, usable, ip, cpu, temp, ram, disk,
                   lines, logged, delay>>
    /\ UNCHANGED <<cfgvars, evars, fvars, svars>>

\* line 154: time.sleep(UPDATE_SECS); a negative length raises ValueError
UpdateSleep ==
    /\ pc = "sleep"
    /\ IF UPDATE_SECS < 0
       THEN Throw("sleep", "ValueError") /\ UNCHANGED <<delay, frame>>
       ELSE pc' = "get_ip" /\ delay' = UPDATE_SECS /\ frame' = <<>> /\ UNCHANGED err
    /\ UNCHANGED <<device, attempts, initLogs, usable, faulted, ip, cpu, temp, ram,
                   disk, lines, l2, logged>>
    /\ UNCHANGED <<cfgvars, evars, fvars, svars>>

\* a handler that logs the error and lets the process end
Except_exit ==
    /\ pc = "except"
    /\ logged' = TRUE
    /\ pc' = "exited"
    /\ UNCHANGED <<device, attempts, initLogs, usable, faulted, ip, cpu, temp, ram,
                   disk, lines, l2, frame, err, delay>>
    /\ UNCHANGED <<cfgvars, evars, fvars, svars>>

\* lines 156-158: the handler prints the error and its traceback
Except ==
    /\ pc = "except"
    /\ logged' = TRUE
    /\ pc' = "recover_sleep"
    /\ delay' = RecoverSecs
    /\ UNCHANGED <<device, attempts, initLogs, usable, faulted, ip, cpu, temp, ram,
                   disk, lines, l2, frame, err>>
    /\ UNCHANGED <<cfgvars, evars, fvars, svars>>

\* line 159: time.sleep(2), then the while loop starts the next iteration
RecoverSleep ==
    /\ pc = "recover_sleep"
    /\ pc' = "get_ip"
    /\ err' = NoErr
    /\ logged' = FALSE
    /\ frame' = <<>>
    /\ UNCHANGED <<device, attempts, initLogs, usable, faulted, ip, cpu, temp, ram,
                   disk, lines, l2, delay>>
    /\ UNCHANGED <<cfgvars, evars, fvars, svars>>

Next ==
    \/ OpenTry
    \/ OpenSleep
    \/ SampleIp
    \/ SampleCpu
    \/ SampleTemp
    \/ SampleRam
    \/ SampleDisk
    \/ Format
    \/ Draw
    \/ UpdateSleep
    \/ Except
    \/ RecoverSleep

Spec == Init /\ [][Next]_vars

\* --------------------------------------------- the daemon after an outage
\* The same daemon in an environment whose outage can end: until then every
\* source and the display may fail as above; once it has ended the sources
\* are readable, the display initialises and the flush goes through.  The
\* interpreter keeps running the single thread (weak fairness of its steps);
\* nothing obliges the outage to end.
LiveInit ==
    /\ HOST_IP = <<>>
    /\ IFACE = <<>>
    /\ UPDATE_SECS \in UpdateSecsValues
    /\ font = Mono(6)
    /\ DaemonStart
    /\ EnvStart
    /\ FitIdle
    /\ SampleIdle

\* the outage ends
Clear ==
    /\ ~cleared
    /\ cleared' = TRUE
    /\ UNCHANGED <<cfgvars, dvars, fvars, svars>>

\* a step whose outcome the environment decides: no failure once cleared
Answered(step) == step /\ (cleared => pc' \notin {"open_sleep", "except", "exited"})

LiveStep ==
    \/ Answered(OpenTry)
    \/ OpenSleep
    \/ Answered(SampleIp)
    \/ Answered(SampleCpu)
    \/ Answered(SampleTemp)
    \/ Answered(SampleRam)
    \/ Answered(SampleDisk)
    \/ Format
    \/ Answered(Draw)
    \/ UpdateSleep
    \/ Except
    \/ RecoverSleep

LiveNext == LiveStep \/ Clear

LiveSpec == LiveInit /\ [][LiveNext]_vars /\ WF_vars(LiveStep)

\* ------------------------------------------------------------ fit harness
FitChars == {"a", Ellipsis}

RECURSIVE Texts(_)
Texts(n) ==
    IF n = 0 THEN {<<>>}
    ELSE Texts(n - 1) \cup {t \o <<c>> : t \in Texts(n - 1), c \in FitChars}

Prefixes(s) == {Take(s, k) : k \in 1..Len(s)}

\* the strings whose width fit, and the draw of its result, can ask for
Measured(s) == Prefixes(s) \cup {p \o <<Ellipsis>> : p \in Prefixes(s)}

\* the daemon's variables while a harness runs
DaemonIdle ==
    /\ HOST_IP = <<>>
    /\ IFACE = <<>>
    /\ UPDATE_SECS = DefaultUpdateSecs
    /\ font = Mono(0)
    /\ DaemonStart
    /\ EnvStart

\* every text the main loop hands to fit starts with a literal, so is not
\* empty; the measure function is any table over the strings fit can measure
FitInit ==
    /\ ftext \in Texts(MaxLen) \ {<<>>}
    /\ fmax_w \in 1..MaxW
    /\ \E tab \in [Measured(ftext) -> 0..(MaxW + 1)] :
           ffont = [adv |-> 1, ell |-> 1, tab |-> tab]
    /\ fpc = "start"
    /\ fres = <<>>
    /\ fres2 = <<>>
    /\ DaemonIdle
    /\ SampleIdle

FitOnce ==
    /\ fpc = "start"
    /\ fres' = fit(ffont, ftext, fmax_w)
    /\ fpc' = "once"
    /\ UNCHANGED <<ftext, fmax_w, ffont, fres2>>
    /\ UNCHANGED <<cfgvars, dvars, evars, svars>>

FitTwice ==
    /\ fpc = "once"
    /\ fres2' = fit(ffont, fres, fmax_w)
    /\ fpc' = "twice"
    /\ UNCHANGED <<ftext, fmax_w, ffont, fres>>
    /\ UNCHANGED <<cfgvars, dvars, evars, svars>>

FitNext == FitOnce \/ FitTwice

FitSpec == FitInit /\ [][FitNext]_vars

\* -------------------------------------------------------- sampler harness
\* one call of one sampler on one answer of the OS
IpArgs == [hostip : HostIps, iface : Ifaces, env : IpEnvs]

\* the counters of a cpu line; /proc/stat documents that iowait can decrease
StatReadsAll ==
    StatReads \cup {[kind |-> "nocpu", parts |-> <<>>],
                    [kind |-> "badint", parts |-> <<>>],
                    Parts(<<100, 0, 0, 100>>)}
              \cup {Parts(<<u, 0, 0, i, w>>) : u \in {100, 140, 160}, i \in {85, 100, 105},
                                             w \in {0, 5}}

CpuArgs == [r1 : StatReadsAll, r2 : StatReadsAll]

MemInfosAll ==
    MemInfos \cup {[kind |-> "badline", mem |-> <<>>],
                   [kind |-> "records", mem |-> [k \in {"MemTotal"} |-> 2000]],
                   [kind |-> "records", mem |-> [k \in {"MemAvailable"} |-> 500]]}
             \cup {[kind |-> "records",
                    mem |-> [k \in {"MemTotal", "MemAvailable"} |->
                                IF k = "MemTotal" THEN t ELSE a]] :
                       t \in {0, 3, 2000}, a \in {0, 1, 2, 3, 2000, 2500}}

\* shutil.disk_usage: used = total - free of the same statvfs, so used <= total
DiskUsagesAll ==
    DiskUsages \cup UNION {{[ok |-> TRUE, used |-> u, total |-> t] : u \in 0..t} :
                              t \in {0, 3, 7}}

\* the candidate paths: the three fixed ones and up to MaxGlob from the glob
PathReads ==
    {Missing, [kind |-> "garbage", v |-> 0], Value(52), Value(1000), Value(1001),
     Value(45600), Value(45678)}

RECURSIVE SeqsOf(_, _)
SeqsOf(set, n) ==
    IF n = 0 THEN {<<>>}
    ELSE {sq \o <<x>> : sq \in SeqsOf(set, n - 1), x \in set}

VcAnswers ==
    {[kind |-> "fail", t |-> 0], [kind |-> "garbage", t |-> 0], [kind |-> "temp", t |-> 512]}

TempArgsAll ==
    [reads : UNION {SeqsOf(PathReads, 3 + g) : g \in 0..MaxGlob}, vc : VcAnswers]

SampleInit ==
    /\ \/ sfn = "get_ip" /\ sarg \in IpArgs
       \/ sfn = "cpu_usage_percent" /\ sarg \in CpuArgs
       \/ sfn = "read_temp_c" /\ sarg \in TempArgsAll
       \/ sfn = "mem_usage_percent" /\ sarg \in MemInfosAll
       \/ sfn = "disk_usage_percent" /\ sarg \in DiskUsagesAll
    /\ spc = "call"
    /\ sret = Ret(0)
    /\ DaemonIdle
    /\ FitIdle

Call(fn, r) ==
    /\ spc = "call"
    /\ sfn = fn
    /\ sret' = r
    /\ spc' = "done"
    /\ UNCHANGED <<sfn, sarg>>
    /\ UNCHANGED <<cfgvars, dvars, evars, fvars>>

CallGetIp == Call("get_ip", get_ip(sarg.hostip, sarg.iface, sarg.env))
CallCpu == Call("cpu_usage_percent", cpu_usage_percent(sarg))
CallTemp == Call("read_temp_c", read_temp_c(sarg))
CallMem == Call("mem_usage_percent", mem_usage_percent(sarg))
CallDisk == Call("disk_usage_percent", disk_usage_percent(sarg))

SampleNext == CallGetIp \/ CallCpu \/ CallTemp \/ CallMem \/ CallDisk

SampleSpec == SampleInit /\ [][SampleNext]_vars

\* ================================================================ claims
LoopPcs == {"get_ip", "cpu", "temp", "ram", "disk", "format", "draw", "sleep",
            "except", "recover_sleep"}
SamplerSteps == {"get_ip", "cpu", "temp", "ram", "disk"}

\* the texts the canvas block hands to fit, in drawing order
FitInputs == <<lines.line1, l2, lines.line3, lines.line4>>

\* C1 (as stated): every text line handed to the draw operation in the main
\* loop has a measured pixel width <= the display width, for every metric
\* snapshot and every width-measuring function.
C1_DrawnLinesFit ==
    \A i \in 1..Len(frame) : textlength(font, frame[i]) <= WIDTH

\* C1 (amended): every text line handed to the draw operation measures
\* <= the display width, or is the first character of its line alone, handed
\* over as fit's last resort when no non-empty prefix of the line followed
\* by the ellipsis fits.
C1_DrawnLinesFitOrLastResort ==
    \A i \in 1..Len(frame) :
        \/ textlength(font, frame[i]) <= WIDTH
        \/ /\ frame[i] = Take(FitInputs[i], 1)
           /\ \A k \in 1..Len(FitInputs[i]) :
                  textlength(font, Take(FitInputs[i], k) \o <<Ellipsis>>) > WIDTH

\* a frame whose first line is a single character wider than the display
C1_Witness ==
    /\ pc = "sleep"
    /\ Len(frame) = 4
    /\ Len(frame[1]) = 1
    /\ textlength(font, frame[1]) > WIDTH

\* C2: for every budget w >= 1, text and measure function, fit returns a
\* string whose measured width is <= w, or -- only when no non-empty prefix
\* of the text followed by the ellipsis fits -- the one-character text[:1].
C2_FitFitsOrLastResort ==
    fpc \in {"once", "twice"} =>
        \/ textlength(ffont, fres) <= fmax_w
        \/ /\ fres = Take(ftext, 1)
           /\ Len(fres) = 1
           /\ \A p \in Prefixes(ftext) :
                  textlength(ffont, p \o <<Ellipsis>>) > fmax_w

\* the last resort taken on a longer text, its one character too wide
C2_Witness ==
    /\ fpc = "once"
    /\ Len(ftext) > 1
    /\ fres = Take(ftext, 1)
    /\ textlength(ffont, fres) > fmax_w

\* C3: a display handle that reported a transport fault during a draw is
\* discarded and a new one acquired before the next draw: no draw is ever
\* attempted on a handle that reported a fault.
C3_FaultedHandleNeverDrawnOn == pc = "draw" => device \notin faulted

\* a step of the main loop stays in the loop (it neither ends the process
\* nor leaves for open_display); a raised error goes to the handler, the
\* handler logs and sleeps 2 s, the sleep starts an iteration
LoopStep ==
    pc \in LoopPcs =>
        /\ pc' \in LoopPcs
        /\ ((err' # err /\ err' # NoErr) => pc' = "except")
        /\ (pc = "except" =>
               (pc' = "recover_sleep" /\ logged' /\ delay' = RecoverSecs /\ err' = err))
        /\ (pc = "recover_sleep" => pc' = "get_ip")

\* C4: once the display is acquired the loop has no terminal state: an error
\* raised in the sample, format, draw or sleep step goes to the handler at
\* the loop boundary, is logged, is followed by the 2 s recovery sleep and
\* then by a new iteration; the loop is never left.
C4_LoopNeverExits == [][LoopStep]_vars

\* a fault of the draw step, logged, in its recovery sleep
C4_Witness ==
    /\ pc = "recover_sleep"
    /\ err.at = "draw"
    /\ logged
    /\ delay = RecoverSecs

\* where open_display stands, its bookkeeping is consistent
OpenState ==
    /\ (pc = "open_try" => (device = 0 /\ initLogs = attempts))
    /\ (pc = "open_sleep" =>
           (device = 0 /\ initLogs = attempts /\ delay = OpenRetrySecs))
    /\ (pc \in LoopPcs =>
           (device \in usable /\ device = attempts /\ initLogs = attempts - 1))
    /\ (pc \in {"open_try", "open_sleep"} => err = NoErr)

\* an attempt ends in the logged failure and the sleep, or in the return of
\* its own handle; the sleep ends in another attempt
OpenStep ==
    /\ (pc = "open_try" =>
           \/ (pc' = "open_sleep" /\ initLogs' = initLogs + 1)
           \/ (pc' = "get_ip" /\ device' = attempts' /\ device' \in usable'))
    /\ (pc = "open_sleep" => (pc' = "open_try" /\ attempts' = attempts))

\* C5: open_display returns only a handle whose initialisation completed,
\* that of the successful attempt; every failed attempt is logged and is
\* followed by the 5 s sleep and another attempt; it never raises.
C5_OpenDisplayRetries == []OpenState /\ [][OpenStep]_vars

\* open_display has returned the handle of an attempt that followed a failure
C5_Witness ==
    /\ pc = "get_ip"
    /\ initLogs >= 1
    /\ device = initLogs + 1
    /\ device \in usable
    /\ frame = <<>>
    /\ lines = NoLines

\* C6: each of the five metric-sampling operations is total: on an
\* unreadable or unparsable OS source it returns its fallback and never
\* raises to the main loop.
C6_SamplersNeverRaise == err.at \notin SamplerSteps

\* the integer-rounded CPU/temperature line of a snapshot
IntegerVariant(c, t) ==
    <<"C", "P", "U", ":">> \o FmtInt(IntRound(c)) \o <<"%">>
        \o (IF t.some
            THEN <<" ", " ", "T", ":">> \o FmtInt(IntRound(t.v)) \o <<Degree, "C">>
            ELSE <<>>)

\* C7: whenever the precise CPU/temperature line measures wider than the
\* display, the string handed to fit for line 2 is the integer-rounded
\* variant and not the precise one, with the temperature present or absent.
C7_IntegerVariantWhenTooWide ==
    (frame # <<>> /\ textlength(font, lines.line2_precise) > WIDTH) =>
        /\ l2 = IntegerVariant(cpu, temp)
        /\ l2 # lines.line2_precise

IfcTierFails(a) ==
    a.iface = <<>> \/ ~a.env.ifc.ok
        \/ \A i \in 1..Len(Flatten(a.env.ifc.out)) : ~IsAddrTok(Flatten(a.env.ifc.out)[i])
RouteTierFails(a) ==
    ~a.env.route.ok
        \/ \A i \in 1..(Len(a.env.route.toks) - 1) : a.env.route.toks[i] # <<"s", "r", "c">>
SockTierFails(a) == ~a.env.sock.ok

\* C8: get_ip returns "0.0.0.0" only if every tier below the override has
\* been tried and has failed; a failing interface or route command alone
\* does not give "0.0.0.0" when a later tier would succeed.
C8_ZeroOnlyWhenAllTiersFail ==
    (sfn = "get_ip" /\ spc = "done" /\ sret.val = ZeroIp) =>
        /\ sarg.hostip = <<>>
        /\ IfcTierFails(sarg)
        /\ RouteTierFails(sarg)
        /\ SockTierFails(sarg)

\* C9: fit is idempotent: fit(fit(s, w), w) = fit(s, w), also when the first
\* result is an ellipsis-terminated prefix or the last-resort character.
C9_FitIdempotent == fpc = "twice" => fres2 = fres

\* the second call runs the loop again on a last-resort character
C9_Witness ==
    /\ fpc = "twice"
    /\ Len(ftext) > 1
    /\ fres = Take(ftext, 1)
    /\ textlength(ffont, fres) > fmax_w
    /\ fres2 = fres

\* C10: if measure(s) <= w then fit(s, w) returns s exactly.
C10_FitKeepsFitting ==
    (fpc \in {"once", "twice"} /\ textlength(ffont, ftext) <= fmax_w) => fres = ftext

\* a text that fills the budget exactly is returned whole
C10_Witness ==
    /\ fpc = "once"
    /\ Len(ftext) > 1
    /\ textlength(ffont, ftext) = fmax_w
    /\ fres = ftext

\* C11: for all counter readings and usage records the samplers can read,
\* cpu_usage_percent, mem_usage_percent and disk_usage_percent return a value
\* in [0, 100] (in tenths: 0..1000), also when counters decrease between the
\* two reads, MemAvailable is missing or exceeds MemTotal, or totals are zero.
C11_PercentInRange ==
    (spc = "done" /\ ~sret.raised
        /\ sfn \in {"cpu_usage_percent", "mem_usage_percent", "disk_usage_percent"})
    => (0 <= sret.val /\ sret.val <= 1000)

\* the CPU segment of line 2 for a CPU percentage in tenths
CpuSegment(c) == <<"C", "P", "U", ":">> \o Fmt1(c) \o <<"%">>

\* C12: when read_temp_c returned absent, line 2 of that frame is the CPU
\* segment only, in the precise and in the fallback variant: no temperature
\* segment, no separator, no placeholder value, and the line handed to
\* draw.text is that segment fitted.
C12_AbsentTempCpuOnly ==
    (pc \in {"draw", "sleep"} /\ ~temp.some)
        => (/\ lines.line2_precise = CpuSegment(cpu)
            /\ lines.line2_ints = CpuSegment(cpu)
            /\ \A k \in 1..Len(CpuSegment(cpu)) :
                   CpuSegment(cpu)[k] \notin {"T", Degree, " "}
            /\ (pc = "sleep" => (/\ l2 = CpuSegment(cpu)
                                 /\ frame[2] = fit(font, CpuSegment(cpu), WIDTH))))

\* a frame drawn without a temperature whose precise line 2 was too wide,
\* so the fallback variant was the one selected
C12_Witness ==
    /\ pc = "sleep"
    /\ ~temp.some
    /\ Len(frame) = 4
    /\ textlength(font, lines.line2_precise) > WIDTH

\* C13: after the outage has ended the loop draws a complete new frame again,
\* and keeps doing so, whichever step had been failing: under fairness of the
\* daemon's steps, "cleared" leads to "four lines drawn and flushed".
C13_ClearedLeadsToFrame ==
    cleared ~> (pc = "sleep" /\ Len(frame) = 4)

\* a frame flushed after the outage, on a run in which a draw had faulted
C13_Witness ==
    /\ cleared
    /\ pc = "sleep"
    /\ Len(frame) = 4
    /\ faulted # {}

\* the step each step of an iteration follows
StepBefore == [cpu |-> "get_ip", temp |-> "cpu", ram |-> "temp", disk |-> "ram",
               format |-> "disk", draw |-> "format", sleep |-> "draw"]

\* where the iteration stands: before the canvas block nothing is drawn and
\* nothing has failed; a drawn frame is the current snapshot, formatted and
\* fitted; after a failing sample nothing is drawn and the 2 s sleep follows
IterState ==
    /\ (pc \in SamplerSteps \cup {"format", "draw"} => (frame = <<>> /\ err = NoErr))
    /\ (frame # <<>> =>
           (/\ lines = format_lines(ip, cpu, temp, ram, disk)
            /\ frame = draw_lines(font, lines).frame
            /\ (pc = "sleep" \/ err.at \in {"draw", "sleep"})))
    /\ (err.at \in SamplerSteps \cup {"format"} =>
           (frame = <<>> /\ pc \in {"except", "recover_sleep"}))
    /\ (pc = "recover_sleep" => delay = RecoverSecs)

\* each step is entered from the one before it only; an iteration starts
\* after open_display or a sleep; between the last sample and the sleep the
\* five metric variables are not assigned; the handler leads to the 2 s sleep
IterStep ==
    /\ (\A p \in DOMAIN StepBefore : (pc' = p /\ pc # p) => pc = StepBefore[p])
    /\ ((pc' = "get_ip" /\ pc # "get_ip") =>
           (pc \in {"open_try", "sleep", "recover_sleep"} /\ frame' = <<>>))
    /\ (pc \in {"format", "draw", "sleep"} => UNCHANGED <<ip, cpu, temp, ram, disk>>)
    /\ ((pc' = "except" /\ pc # "except") =>
           (pc \in SamplerSteps \cup {"draw", "sleep"} /\ err'.at = pc))
    /\ (pc = "except" =>
           (pc' = "recover_sleep" /\ delay' = RecoverSecs /\ frame' = frame))
    /\ ((pc = "sleep" /\ pc' = "get_ip") => delay' = UPDATE_SECS)

\* C14: the steps of an iteration run strictly in the order sample, format,
\* draw, sleep; every frame drawn is built from the five metrics sampled in
\* that iteration; an iteration in which a sampling or formatting step fails
\* draws nothing and goes to the 2 s recovery sleep, not the update sleep.
C14_IterationSequential == []IterState /\ [][IterStep]_vars

\* a sample failed in an iteration that followed a formatted one: nothing is
\* drawn from the earlier lines and the daemon is in the recovery sleep
C14_Witness ==
    /\ pc = "recover_sleep"
    /\ err.at \in SamplerSteps
    /\ lines # NoLines
    /\ frame = <<>>
    /\ delay = RecoverSecs

\* a step of the harness leaves fit's arguments and the daemon's module
\* state as they were: fit assigns only its local alt
FitPure == UNCHANGED <<ftext, fmax_w, ffont, cfgvars, dvars>>

\* one call measures at most len(text) + 1 strings
FitCallsBounded ==
    fpc # "idle" => fit_calls(ffont, ftext, fmax_w) <= Len(ftext) + 1

\* C15: fit terminates for all inputs and is stateless; one call performs at
\* most len(text) + 1 width measurements.
C15_FitBoundedMeasurements == []FitCallsBounded /\ [][FitPure]_vars

\* the last resort: every prefix was measured and none fitted
C15_Witness ==
    /\ fpc = "once"
    /\ Len(ftext) >= 2
    /\ fres = Take(ftext, 1)
    /\ fit_calls(ffont, ftext, fmax_w) = Len(ftext) + 1

\* idle time (idle + iowait) and total time of a reading that has them; a
\* reading without a cpu line counts as 0 and 0
StatIdle(r) == IF r.kind = "parts" THEN r.parts[4] + r.parts[5] ELSE 0
StatTotal(r) == IF r.kind = "parts" THEN SumSeq(r.parts) ELSE 0

\* the documented example: idle/total 100/200, then 110/250
CpuExample ==
    [r1 |-> Parts(<<100, 0, 0, 100, 0>>), r2 |-> Parts(<<140, 0, 0, 105, 5>>)]

\* C16: cpu_usage_percent returns 100 * (1 - d_idle / d_total) rounded to
\* one decimal, idle being idle + iowait and the deltas taken between the
\* two reads, when d_total > 0, and 0.0 when d_total is zero or negative;
\* idle/total going from 100/200 to 110/250 yields 80.0.  In tenths: the
\* result v is a nearest integer to 1000 * (d_total - d_idle) / d_total.
C16_CpuFormula ==
    (spc = "done" /\ sfn = "cpu_usage_percent" /\ ~sret.raised)
        => LET d_idle == StatIdle(sarg.r2) - StatIdle(sarg.r1)
               d_total == StatTotal(sarg.r2) - StatTotal(sarg.r1)
           IN  /\ d_total > 0 =>
                      2 * Abs(sret.val * d_total - 1000 * (d_total - d_idle))
                          <= d_total
               /\ d_total <= 0 => sret.val = 0
               /\ sarg = CpuExample => sret.val = 800

\* the documented example has been computed
C16_Witness ==
    /\ spc = "done"
    /\ sfn = "cpu_usage_percent"
    /\ sarg = CpuExample
    /\ sret = Ret(800)

\* the candidate paths whose content parses as a number
TempHits == {k \in 1..Len(sarg.reads) : sarg.reads[k].kind = "value"}
FirstHit == CHOOSE k \in TempHits : \A j \in TempHits : k <= j

\* the paths are probed in list order up to the first that parses; vcgencmd
\* runs only after every path failed; absent only after vcgencmd failed too
TempOrder ==
    /\ ~sret.raised
    /\ TempHits # {} =>
           (/\ sret.val.some
            /\ temp_probes(sarg.reads) = FirstHit
            /\ ~vc_invoked(sarg))
    /\ TempHits = {} =>
           (/\ temp_probes(sarg.reads) = Len(sarg.reads)
            /\ vc_invoked(sarg)
            /\ sret.val = IF sarg.vc.kind = "temp" THEN SomeTemp(sarg.vc.t)
                          ELSE NoTemp)
    /\ ~sret.val.some => (TempHits = {} /\ sarg.vc.kind # "temp")

\* C17 (as stated): read_temp_c probes the candidate paths in list order and
\* returns the value of the first path that parses, divided by 1000 when it
\* is above 1000 and unchanged otherwise; vcgencmd is invoked only after
\* every path has failed, and absent is returned only after it failed too.
\* (The result is in tenths, the file's value v in its own unit.)
C17_FirstParsableExact ==
    (spc = "done" /\ sfn = "read_temp_c")
        => (/\ TempOrder
            /\ TempHits # {} =>
                   LET v == sarg.reads[FirstHit].v
                   IN  IF v > 1000 THEN sret.val.v * 100 = v
                       ELSE sret.val.v = v * 10)

\* C17 (amended): as above, the value divided by 1000 when above 1000 being
\* rounded to one decimal place.
C17_FirstParsableRounded ==
    (spc = "done" /\ sfn = "read_temp_c")
        => (/\ TempOrder
            /\ TempHits # {} =>
                   LET v == sarg.reads[FirstHit].v
                   IN  IF v > 1000 THEN 2 * Abs(sret.val.v * 100 - v) <= 100
                       ELSE sret.val.v = v * 10)

\* the first path is missing, the second holds 45678, the third 52: the
\* result is 45.7 and the third path is not opened
C17_Witness ==
    /\ spc = "done"
    /\ sfn = "read_temp_c"
    /\ sarg.reads[1] = Missing
    /\ sarg.reads[2] = Value(45678)
    /\ sarg.reads[3] = Value(52)
    /\ sret = Ret(SomeTemp(457))
    /\ temp_probes(sarg.reads) = 2

\* the lengths of the non-empty prefixes of the text, the text included,
\* whose ellipsized form fits the budget
FitFitting ==
    {k \in 1..Len(ftext) :
        textlength(ffont, Take(ftext, k) \o <<Ellipsis>>) <= fmax_w}
LongestFitting == CHOOSE k \in FitFitting : \A j \in FitFitting : j <= k

\* C18: when fit truncates (the text does not fit and some non-empty prefix,
\* the text included, fits with the ellipsis), the result is p + ellipsis for
\* the longest such prefix p, whatever the measure function, monotone or not.
C18_FitLongestPrefix ==
    (fpc \in {"once", "twice"}
        /\ textlength(ffont, ftext) > fmax_w
        /\ FitFitting # {})
        => fres = Take(ftext, LongestFitting) \o <<Ellipsis>>

\* a truncation under a measure function under which a shorter prefix fits
\* as well and the longest fitting prefix is not the whole text
C18_Witness ==
    /\ fpc = "once"
    /\ textlength(ffont, ftext) > fmax_w
    /\ Cardinality(FitFitting) >= 2
    /\ Len(ftext) \notin FitFitting
    /\ fres = Take(ftext, LongestFitting) \o <<Ellipsis>>

====
